---- MODULE Spec2Model ----
(***************************************************************************)
(* A model of the jdt utility crate (src/src/lib.rs): the iterative        *)
(* directory walker walk_dir, the configuration bootstrap Project::config, *)
(* and the helpers backup, eq_files, rename_file and almost_eq.            *)
(*                                                                         *)
(* Every function has its own group of variables and its own              *)
(* specification (WalkSpec, ConfigSeqSpec, ...); in the specification of   *)
(* one function the variables of the others stay at their idle values.     *)
(***************************************************************************)
EXTENDS Integers, Sequences, FiniteSets, TLC

VARIABLES
    \* ---- walk_dir (lib.rs 51-80)
    walk_fs,      \* the directory graph walked (never changed by walk_dir)
    dir_stack,    \* the work list of directory paths (line 53)
    results,      \* the result vector (line 54)
    iter,         \* what is left of the read_dir iterator of the current directory
    walk_pc,      \* "loop" | "for" | "done"
    walk_steps,   \* history: the steps walk_dir has taken
    \* ---- Project::config (lib.rs 21-48)
    cfg_dir,      \* the configuration directory exists
    cfg_file,     \* config.toml: whether it exists, and its text (a sequence of tokens)
    cfg_pc,       \* per caller: "idle" | "exists" | "write" | "write_all" | "build"
                  \*             | "done" | "panicked"
    cfg_absent,   \* per caller: what !config_path.exists() gave (line 25)
    cfg_pos,      \* per caller: the offset of its open file in fs::write (line 31)
    cfg_text,     \* per caller: the text the load read (line 38)
    cfg_ret,      \* per caller: the value returned (line 47)
    cfg_at_call,  \* history, per caller: directory and file as the call began
    cfg_loads,    \* history: the values returned since config.toml was last edited by hand
    cfg_calls,    \* history: the calls begun
    cfg_writers,  \* history: the callers that have written the defaults
    \* ---- backup (lib.rs 133-154)
    bk_files,     \* the directory of `path`: file name -> content, for the files that exist
    bk_path,      \* the argument `path`
    n_retries,    \* line 136
    bk_pc,        \* "idle" | "loop" | "done"
    bk_result,    \* what backup returned
    bk_before,    \* history: bk_files as the call began
    bk_calls,     \* history: the calls begun
    \* ---- almost_eq (lib.rs 86-90)
    ae_a,         \* the argument a
    ae_b,         \* the argument b
    relative_tolerance,
    ae_pc,        \* "call" | "done"
    ae_result,    \* the bool returned
    \* ---- eq_files (lib.rs 111-131)
    eq_fs,        \* the file system the paths are looked up in
    eq_a,         \* the argument a
    eq_b,         \* the argument b
    a_metadata,   \* line 114
    b_metadata,   \* line 115
    eq_pc,        \* "idle" | "metadata_a" | "metadata_b" | "match" | "done"
    eq_result,    \* what eq_files returned
    eq_before,    \* history: eq_fs as the call began
    \* ---- rename_file (lib.rs 93-109)
    rn_files,     \* path -> [ino, data], for the paths that exist
    rn_env,       \* the device of each path's directory, and what is denied
    from_path,    \* the argument from_path
    to_path,      \* the argument to_path
    rn_err,       \* e: the error of fs::rename, "" when there is none
    rn_pc,        \* "idle" | "rename" | "copy" | "remove" | "done"
    rn_result,    \* what rename_file returned
    rn_ops,       \* history: the file system calls made, in order
    rn_before     \* history: rn_files as the call began

walkVars == <<walk_fs, dir_stack, results, iter, walk_pc, walk_steps>>

cfgVars == <<cfg_dir, cfg_file, cfg_pc, cfg_absent, cfg_pos, cfg_text, cfg_ret,
             cfg_at_call, cfg_loads, cfg_calls, cfg_writers>>

bkVars == <<bk_files, bk_path, n_retries, bk_pc, bk_result, bk_before, bk_calls>>

aeVars == <<ae_a, ae_b, relative_tolerance, ae_pc, ae_result>>

eqVars == <<eq_fs, eq_a, eq_b, a_metadata, b_metadata, eq_pc, eq_result, eq_before>>

rnVars == <<rn_files, rn_env, from_path, to_path, rn_err, rn_pc, rn_result, rn_ops,
            rn_before>>

vars == <<walkVars, cfgVars, bkVars, aeVars, eqVars, rnVars>>

None == "none"

\* The values of a function's variables in the specification of another function.
WalkIdle ==
    /\ walk_fs = None
    /\ dir_stack = <<>>
    /\ results = <<>>
    /\ iter = <<>>
    /\ walk_pc = "idle"
    /\ walk_steps = 0

RnIdle ==
    /\ rn_files = <<>>
    /\ rn_env = None
    /\ from_path = ""
    /\ to_path = ""
    /\ rn_err = ""
    /\ rn_pc = "idle"
    /\ rn_result = ""
    /\ rn_ops = <<>>
    /\ rn_before = <<>>

EqIdle ==
    /\ eq_fs = None
    /\ eq_a = <<>>
    /\ eq_b = <<>>
    /\ a_metadata = None
    /\ b_metadata = None
    /\ eq_pc = "idle"
    /\ eq_result = ""
    /\ eq_before = None

AeIdle ==
    /\ ae_a = None
    /\ ae_b = None
    /\ relative_tolerance = None
    /\ ae_pc = "idle"
    /\ ae_result = FALSE

BkIdle ==
    /\ bk_files = <<>>
    /\ bk_path = ""
    /\ n_retries = 0
    /\ bk_pc = "idle"
    /\ bk_result = ""
    /\ bk_before = <<>>
    /\ bk_calls = 0

CfgIdle ==
    /\ cfg_dir = FALSE
    /\ cfg_file = <<>>
    /\ cfg_pc = <<>>
    /\ cfg_absent = <<>>
    /\ cfg_pos = <<>>
    /\ cfg_text = <<>>
    /\ cfg_ret = <<>>
    /\ cfg_at_call = <<>>
    /\ cfg_loads = <<>>
    /\ cfg_calls = 0
    /\ cfg_writers = {}

Last(s) == s[Len(s)]

Front(s) == SubSeq(s, 1, Len(s) - 1)

Count(s, x) == Cardinality({i \in 1..Len(s) : s[i] = x})

(***************************************************************************)
(*                              walk_dir                                   *)
(*                                                                         *)
(* The file system is a graph of nodes 0..MaxNode, node 0 being the root    *)
(* handed to walk_dir.  A node is a directory, a regular file, or absent.   *)
(* Every node other than the root hangs under one parent directory (the     *)
(* tree); `links` are further entries of directories that are symbolic      *)
(* links to nodes of the tree.  read_dir and is_dir follow symbolic links, *)
(* so a link is just one more entry leading to its target.  The entry of    *)
(* directory d that leads to node n is named n, and a path is the sequence *)
(* of the names from the root, root included: <<0, 2, 3>>.                  *)
(*                                                                         *)
(* `unreadable` are the directories whose read_dir fails, `bad` the         *)
(* entries <<d, n>> whose read fails while d is iterated, and `descending` *)
(* is the order in which a directory hands out its entries.                *)
(***************************************************************************)
MaxNode == 3

Nodes == 0..MaxNode

\* Paths longer than any path of an acyclic graph: the walker's paths grow
\* without bound on a cycle, and the model follows them up to this length.
MaxPathLen == 2 * MaxNode + 1

\* parent[n] = -1: node n is not part of the tree.
Trees ==
    {t \in [1..MaxNode -> Nodes \cup {-1}] : \A i \in 1..MaxNode : t[i] < i}

InTree(t, n) == n = 0 \/ t[n] # -1

KindsFor(t) ==
    {k \in [Nodes -> {"dir", "file"}] :
        /\ k[0] = "dir"
        /\ \A i \in 1..MaxNode : InTree(t, i) => k[t[i]] = "dir"
        /\ \A i \in 1..MaxNode : ~InTree(t, i) => k[i] = "file"}

TreeEdges(t) == {<<t[n], n>> : n \in {i \in 1..MaxNode : InTree(t, i)}}

\* No symbolic link, or one: from a directory of the tree to a node of the tree.
LinksFor(t, k) ==
    {{}} \cup
    {{e} : e \in {e \in Nodes \X Nodes :
                    /\ k[e[1]] = "dir" /\ InTree(t, e[1]) /\ InTree(t, e[2])
                    /\ e \notin TreeEdges(t)}}

\* No fault, one directory that cannot be listed, or one entry that cannot be read.
FaultsFor(t, k, l) ==
    {[unreadable |-> {}, bad |-> {}]}
    \cup {[unreadable |-> {d}, bad |-> {}] :
              d \in {n \in Nodes : InTree(t, n) /\ k[n] = "dir"}}
    \cup {[unreadable |-> {}, bad |-> {e}] : e \in TreeEdges(t) \cup l}

FileSystem(t, k, l, f, o) ==
    [kind |-> k, parent |-> t, links |-> l,
     unreadable |-> f.unreadable, bad |-> f.bad, descending |-> o]

\* A root that is no directory: a regular file, or nothing at all.
NoDirectory(r) ==
    [kind |-> [n \in Nodes |-> IF n = 0 THEN r ELSE "file"],
     parent |-> [i \in 1..MaxNode |-> -1], links |-> {},
     unreadable |-> {}, bad |-> {}, descending |-> FALSE]

\* The entries of directory node d: its children and its links.
Entries(fs, d) ==
    {n \in 1..MaxNode : fs.parent[n] = d} \cup {l[2] : l \in {l \in fs.links : l[1] = d}}

\* fs::read_dir(&dir) succeeds (line 56).
ReadDirOk(fs, dir) ==
    fs.kind[Last(dir)] = "dir" /\ Last(dir) \notin fs.unreadable

RECURSIVE SortedSeq(_, _)
SortedSeq(S, desc) ==
    IF S = {} THEN <<>>
    ELSE LET x == IF desc THEN CHOOSE m \in S : \A y \in S : y <= m
                  ELSE CHOOSE m \in S : \A y \in S : m <= y
         IN  <<x>> \o SortedSeq(S \ {x}, desc)

\* The iterator read_dir returns: the directory's entries in the directory's order.
ReadDir(fs, dir) == SortedSeq(Entries(fs, Last(dir)), fs.descending)

\* entry.path() (line 71), for an entry the iterator hands out.
EntryPath(dir, n) == Append(dir, n)

\* The iterator yields Err for this entry (line 66).
EntryErr(fs, dir, n) == <<Last(dir), n>> \in fs.bad

\* entry.file_type()?.is_dir(): does not follow symbolic links.
IsDirNoFollow(fs, path) ==
    /\ fs.kind[Last(path)] = "dir"
    /\ Len(path) >= 2 => <<path[Len(path) - 1], Last(path)>> \notin fs.links

\* path.is_dir() (line 72): follows symbolic links.
IsDir(fs, path) == fs.kind[Last(path)] = "dir"

\* The caller's transform f (line 51); the test's is |path| path.
F(path) == <<"f", path>>

WalkInit ==
    /\ \/ \E t \in Trees : \E k \in KindsFor(t) : \E l \in LinksFor(t, k) :
             \E f \in FaultsFor(t, k, l) : \E o \in BOOLEAN :
                walk_fs = FileSystem(t, k, l, f, o)
       \/ \E r \in {"file", "absent"} : walk_fs = NoDirectory(r)
    /\ dir_stack = << <<0>> >>
    /\ results = <<>>
    /\ iter = <<>>
    /\ walk_pc = "loop"
    /\ walk_steps = 0

WalkStep == walk_steps' = walk_steps + 1 /\ UNCHANGED <<cfgVars, bkVars, aeVars, eqVars, rnVars>>

\* while let Some(dir) = dir_stack.pop(), read_dir Ok (lines 55-57)
WalkReadDir ==
    /\ walk_pc = "loop"
    /\ dir_stack # <<>>
    /\ ReadDirOk(walk_fs, Last(dir_stack))
    /\ iter' = [dir |-> Last(dir_stack), rest |-> ReadDir(walk_fs, Last(dir_stack))]
    /\ dir_stack' = Front(dir_stack)
    /\ walk_pc' = "for"
    /\ UNCHANGED <<walk_fs, results>>
    /\ WalkStep

\* A walker that gives up at the first directory it cannot list.
WalkReadDirErrReturns ==
    /\ walk_pc = "loop"
    /\ dir_stack # <<>>
    /\ ~ReadDirOk(walk_fs, Last(dir_stack))
    /\ dir_stack' = <<>>
    /\ UNCHANGED <<walk_fs, results, iter, walk_pc>>
    /\ WalkStep

\* read_dir Err: warn and continue with the next directory (lines 58-61)
WalkReadDirErr ==
    /\ walk_pc = "loop"
    /\ dir_stack # <<>>
    /\ ~ReadDirOk(walk_fs, Last(dir_stack))
    /\ dir_stack' = Front(dir_stack)
    /\ UNCHANGED <<walk_fs, results, iter, walk_pc>>
    /\ WalkStep

\* an entry the iterator fails to read: warn and continue (lines 64-69)
WalkEntryErr ==
    /\ walk_pc = "for"
    /\ iter.rest # <<>>
    /\ EntryErr(walk_fs, iter.dir, Head(iter.rest))
    /\ iter' = [iter EXCEPT !.rest = Tail(@)]
    /\ UNCHANGED <<walk_fs, dir_stack, results, walk_pc>>
    /\ WalkStep

\* A walker with a cycle guard: a directory already on the path is not pushed again.
WalkPushDirGuarded ==
    /\ walk_pc = "for"
    /\ iter.rest # <<>>
    /\ ~EntryErr(walk_fs, iter.dir, Head(iter.rest))
    /\ LET path == EntryPath(iter.dir, Head(iter.rest))
       IN  /\ IsDir(walk_fs, path)
           /\ Len(path) <= MaxPathLen
           /\ dir_stack' = IF \E i \in 1..Len(iter.dir) : iter.dir[i] = Last(path)
                           THEN dir_stack
                           ELSE Append(dir_stack, path)
    /\ iter' = [iter EXCEPT !.rest = Tail(@)]
    /\ UNCHANGED <<walk_fs, results, walk_pc>>
    /\ WalkStep

\* if path.is_dir() { dir_stack.push(path) } (lines 72-73)
WalkPushDir ==
    /\ walk_pc = "for"
    /\ iter.rest # <<>>
    /\ ~EntryErr(walk_fs, iter.dir, Head(iter.rest))
    /\ LET path == EntryPath(iter.dir, Head(iter.rest))
       IN  /\ IsDir(walk_fs, path)
           /\ Len(path) <= MaxPathLen
           /\ dir_stack' = Append(dir_stack, path)
    /\ iter' = [iter EXCEPT !.rest = Tail(@)]
    /\ UNCHANGED <<walk_fs, results, walk_pc>>
    /\ WalkStep

\* else { results.push(f(path)) } (lines 74-75)
WalkVisitFile ==
    /\ walk_pc = "for"
    /\ iter.rest # <<>>
    /\ ~EntryErr(walk_fs, iter.dir, Head(iter.rest))
    /\ LET path == EntryPath(iter.dir, Head(iter.rest))
       IN  /\ ~IsDir(walk_fs, path)
           /\ results' = Append(results, F(path))
    /\ iter' = [iter EXCEPT !.rest = Tail(@)]
    /\ UNCHANGED <<walk_fs, dir_stack, walk_pc>>
    /\ WalkStep

\* the iterator is exhausted: back to the while loop (line 77)
WalkForEnd ==
    /\ walk_pc = "for"
    /\ iter.rest = <<>>
    /\ walk_pc' = "loop"
    /\ iter' = <<>>
    /\ UNCHANGED <<walk_fs, dir_stack, results>>
    /\ WalkStep

\* dir_stack.pop() is None: return results (lines 55, 79)
WalkReturn ==
    /\ walk_pc = "loop"
    /\ dir_stack = <<>>
    /\ walk_pc' = "done"
    /\ UNCHANGED <<walk_fs, dir_stack, results, iter>>
    /\ WalkStep

WalkNext ==
    \/ WalkReadDir
    \/ WalkReadDirErr
    \/ WalkEntryErr
    \/ WalkPushDir
    \/ WalkVisitFile
    \/ WalkForEnd
    \/ WalkReturn

(***************************************************************************)
(*                           Project::config                               *)
(*                                                                         *)
(* The caller's Config type is a record of two fields, a and b.  A TOML     *)
(* text is a sequence of tokens, two for a line: the key (with its "=") and *)
(* the value (with its line end).                                          *)
(* fs::write is File::create (create or truncate) followed by write_all,   *)
(* which hands the text to the file in one or more pieces at the offset of *)
(* the writer's own open file; a write past the end of the file fills the  *)
(* gap with NUL.  The directory is writable: the panics of lines 23, 29    *)
(* and 33 are not part of the model; those of lines 40 and 44 are.         *)
(***************************************************************************)
NCallers == 2

MaxCalls == 3

Callers == 1..NCallers

Vals == {"0", "1"}

Configs == [a : Vals, b : Vals]

\* Config::default()
Default == [a |-> "0", b |-> "1"]

\* A serializer that forgets the last field.
TomlOfDropsLast(c) == <<"a", c.a>>

\* toml::to_string_pretty (line 27): the fields in their order.
TomlOf(c) == <<"a", c.a, "b", c.b>>

\* The TOML parser of config::File (line 38): lines of key = value, no key twice.
ParseOk(text) ==
    /\ Len(text) % 2 = 0
    /\ \A i \in 1..Len(text) :
         IF i % 2 = 1 THEN text[i] \in {"a", "b", "c"} ELSE text[i] \in Vals
    /\ \A i, j \in 1..Len(text) :
         (i % 2 = 1 /\ j % 2 = 1 /\ i # j) => text[i] # text[j]

\* The value of key k in a text that parses, None when the text has no such key.
Lookup(text, k) ==
    IF \E i \in 1..Len(text) : i % 2 = 1 /\ text[i] = k
    THEN text[(CHOOSE i \in 1..Len(text) : i % 2 = 1 /\ text[i] = k) + 1]
    ELSE None

\* build and try_deserialize succeed (lines 38-45): the text parses and has
\* every field of Config.  A key the type does not have is ignored.
LoadOk(text) ==
    ParseOk(text) /\ Lookup(text, "a") # None /\ Lookup(text, "b") # None

\* The Config deserialized from a text that loads.
Load(text) == [a |-> Lookup(text, "a"), b |-> Lookup(text, "b")]

\* config.toml: absent, or a file holding a text.
Absent == [exists |-> FALSE, text |-> <<>>]

File(text) == [exists |-> TRUE, text |-> text]

NoConfig == [a |-> "", b |-> ""]

\* write(2) of `piece` at offset `pos` of a file holding `text`.
WriteAt(text, pos, piece) ==
    [i \in 1..(IF pos + Len(piece) > Len(text) THEN pos + Len(piece) ELSE Len(text)) |->
        IF i > pos /\ i <= pos + Len(piece) THEN piece[i - pos]
        ELSE IF i <= Len(text) THEN text[i]
        ELSE "NUL"]

\* What a hand may leave in config.toml.
EditContents ==
    {TomlOf(c) : c \in Configs}
    \cup {<<"b", "0", "a", "1">>,
          <<"a", "1", "b", "1", "c", "0">>,
          <<"a", "1">>,
          <<"a", "1", "b">>}

CfgInit ==
    /\ cfg_dir \in BOOLEAN
    /\ cfg_file \in IF cfg_dir THEN {Absent} \cup {File(t) : t \in EditContents}
                           ELSE {Absent}
    /\ cfg_pc = [p \in Callers |-> "idle"]
    /\ cfg_absent = [p \in Callers |-> FALSE]
    /\ cfg_pos = [p \in Callers |-> 0]
    /\ cfg_text = [p \in Callers |-> <<>>]
    /\ cfg_ret = [p \in Callers |-> NoConfig]
    /\ cfg_at_call = [p \in Callers |-> [dir |-> FALSE, file |-> Absent]]
    /\ cfg_loads = <<>>
    /\ cfg_calls = 0
    /\ cfg_writers = {}

CfgOthers == <<walkVars, bkVars, aeVars, eqVars, rnVars>>

\* config() begins: fs::create_dir_all(&self.config_dir) (lines 22-23)
CfgCreateDirAll(p) ==
    /\ cfg_pc[p] = "idle"
    /\ cfg_calls < MaxCalls
    /\ cfg_calls' = cfg_calls + 1
    /\ cfg_at_call' = [cfg_at_call EXCEPT ![p] = [dir |-> cfg_dir, file |-> cfg_file]]
    /\ cfg_dir' = TRUE
    /\ cfg_pc' = [cfg_pc EXCEPT ![p] = "exists"]
    /\ UNCHANGED <<cfg_file, cfg_absent, cfg_pos, cfg_text, cfg_ret, cfg_loads,
                   cfg_writers>>
    /\ UNCHANGED CfgOthers

\* A bootstrap that writes the defaults whether or not the file exists.
CfgExistsIgnored(p) ==
    /\ cfg_pc[p] = "exists"
    /\ cfg_absent' = [cfg_absent EXCEPT ![p] = TRUE]
    /\ cfg_pc' = [cfg_pc EXCEPT ![p] = "write"]
    /\ UNCHANGED <<cfg_dir, cfg_file, cfg_pos, cfg_text, cfg_ret, cfg_at_call,
                   cfg_loads, cfg_calls, cfg_writers>>
    /\ UNCHANGED CfgOthers

\* if !config_path.exists() (line 25)
CfgExists(p) ==
    /\ cfg_pc[p] = "exists"
    /\ cfg_absent' = [cfg_absent EXCEPT ![p] = ~cfg_file.exists]
    /\ cfg_pc' = [cfg_pc EXCEPT ![p] = IF ~cfg_file.exists THEN "write" ELSE "build"]
    /\ UNCHANGED <<cfg_dir, cfg_file, cfg_pos, cfg_text, cfg_ret, cfg_at_call,
                   cfg_loads, cfg_calls, cfg_writers>>
    /\ UNCHANGED CfgOthers

\* fs::write, File::create: the file is created, or truncated (lines 26-31)
CfgCreateFile(p) ==
    /\ cfg_pc[p] = "write"
    /\ cfg_file' = File(<<>>)
    /\ cfg_pos' = [cfg_pos EXCEPT ![p] = 0]
    /\ cfg_writers' = cfg_writers \cup {p}
    /\ cfg_pc' = [cfg_pc EXCEPT ![p] = "write_all"]
    /\ UNCHANGED <<cfg_dir, cfg_absent, cfg_text, cfg_ret, cfg_at_call, cfg_loads,
                   cfg_calls>>
    /\ UNCHANGED CfgOthers

\* A writer whose file is open for appending: every piece goes to the end of the file.
CfgWriteAllAppends(p) ==
    /\ cfg_pc[p] = "write_all"
    /\ LET toml == TomlOf(Default)
       IN  \E n \in 1..(Len(toml) - cfg_pos[p]) :
             /\ cfg_file' = File(cfg_file.text
                                  \o SubSeq(toml, cfg_pos[p] + 1, cfg_pos[p] + n))
             /\ cfg_pos' = [cfg_pos EXCEPT ![p] = @ + n]
             /\ cfg_pc' = [cfg_pc EXCEPT ![p] =
                              IF cfg_pos[p] + n = Len(toml) THEN "build" ELSE "write_all"]
    /\ UNCHANGED <<cfg_dir, cfg_absent, cfg_text, cfg_ret, cfg_at_call, cfg_loads,
                   cfg_calls, cfg_writers>>
    /\ UNCHANGED CfgOthers

\* fs::write, write_all: the next piece of the serialized defaults (line 31)
CfgWriteAll(p) ==
    /\ cfg_pc[p] = "write_all"
    /\ LET toml == TomlOf(Default)
       IN  \E n \in 1..(Len(toml) - cfg_pos[p]) :
             /\ cfg_file' = File(WriteAt(cfg_file.text, cfg_pos[p],
                                         SubSeq(toml, cfg_pos[p] + 1, cfg_pos[p] + n)))
             /\ cfg_pos' = [cfg_pos EXCEPT ![p] = @ + n]
             /\ cfg_pc' = [cfg_pc EXCEPT ![p] =
                              IF cfg_pos[p] + n = Len(toml) THEN "build" ELSE "write_all"]
    /\ UNCHANGED <<cfg_dir, cfg_absent, cfg_text, cfg_ret, cfg_at_call, cfg_loads,
                   cfg_calls, cfg_writers>>
    /\ UNCHANGED CfgOthers

\* the file is read, parsed and deserialized into Config (lines 38-47)
CfgBuild(p) ==
    /\ cfg_pc[p] = "build"
    /\ cfg_text' = [cfg_text EXCEPT ![p] = cfg_file.text]
    /\ IF LoadOk(cfg_file.text)
       THEN /\ cfg_pc' = [cfg_pc EXCEPT ![p] = "done"]
            /\ cfg_ret' = [cfg_ret EXCEPT ![p] = Load(cfg_file.text)]
            /\ cfg_loads' = Append(cfg_loads, Load(cfg_file.text))
       ELSE /\ cfg_pc' = [cfg_pc EXCEPT ![p] = "panicked"]
            /\ UNCHANGED <<cfg_ret, cfg_loads>>
    /\ UNCHANGED <<cfg_dir, cfg_file, cfg_absent, cfg_pos, cfg_at_call, cfg_calls,
                   cfg_writers>>
    /\ UNCHANGED CfgOthers

\* the caller has its Config and may call again
CfgReturn(p) ==
    /\ cfg_pc[p] = "done"
    /\ cfg_pc' = [cfg_pc EXCEPT ![p] = "idle"]
    /\ UNCHANGED <<cfg_dir, cfg_file, cfg_absent, cfg_pos, cfg_text, cfg_ret,
                   cfg_at_call, cfg_loads, cfg_calls, cfg_writers>>
    /\ UNCHANGED CfgOthers

\* between two calls somebody edits config.toml by hand
CfgHandEdit ==
    /\ \A p \in Callers : cfg_pc[p] = "idle"
    /\ cfg_dir
    /\ \E text \in EditContents : cfg_file' = File(text)
    /\ cfg_file' # cfg_file
    /\ cfg_loads' = <<>>
    /\ UNCHANGED <<cfg_dir, cfg_pc, cfg_absent, cfg_pos, cfg_text, cfg_ret,
                   cfg_at_call, cfg_calls, cfg_writers>>
    /\ UNCHANGED CfgOthers

\* One caller, call after call, and hand edits between the calls.
CfgSeqNext ==
    \/ CfgCreateDirAll(1)
    \/ CfgExists(1)
    \/ CfgCreateFile(1)
    \/ CfgWriteAll(1)
    \/ CfgBuild(1)
    \/ CfgReturn(1)
    \/ CfgHandEdit

\* NCallers callers (threads or processes) of config() for one project, MaxCalls
\* calls between them, starting without config.toml.
CfgRaceInit == CfgInit /\ cfg_file = Absent

CfgRaceNext ==
    \E p \in Callers :
        \/ CfgCreateDirAll(p)
        \/ CfgExists(p)
        \/ CfgCreateFile(p)
        \/ CfgWriteAll(p)
        \/ CfgBuild(p)
        \/ CfgReturn(p)

(***************************************************************************)
(*                                backup                                   *)
(*                                                                         *)
(* The files of one directory, by name.  `path` is the name of a file of    *)
(* that directory, or "..", the path that has no file name.  fs::copy      *)
(* fails, creating nothing, when its source does not exist.                *)
(***************************************************************************)
MaxRetries == 2

MaxBackups == 2

BkContents == {"x", "y"}

BkPaths == {"f", "f.bak", ".."}

\* path.file_name() (line 135): None for a path that ends in "..".
FileName(path) == IF path = ".." THEN None ELSE path

\* An extension numbered from the first backup on: bak.0, bak.1, ...
ExtensionNumbered(n) == "bak." \o ToString(n)

\* let extension = ... (lines 138-142)
Extension(n) == IF n = 0 THEN "bak" ELSE "bak." \o ToString(n)

\* path.with_file_name(filename + "." + extension) (lines 143-146)
BackupPath(path, n) == FileName(path) \o "." \o Extension(n)

\* The names a directory may hold as backup begins.
BkInitNames == {"f", "f.bak"} \cup {BackupPath("f", n) : n \in 1..MaxRetries}

BkInit ==
    /\ bk_files \in UNION {[S -> BkContents] : S \in SUBSET BkInitNames}
    /\ bk_path = ""
    /\ n_retries = 0
    /\ bk_pc = "idle"
    /\ bk_result = ""
    /\ bk_before = <<>>
    /\ bk_calls = 0

BkOthers == <<walkVars, cfgVars, aeVars, eqVars, rnVars>>

\* backup(path) with a path that has a file name (lines 134-136)
BackupCall ==
    /\ bk_pc = "idle"
    /\ bk_calls < MaxBackups
    /\ \E path \in BkPaths :
         /\ FileName(path) # None
         /\ bk_path' = path
    /\ n_retries' = 0
    /\ bk_pc' = "loop"
    /\ bk_result' = ""
    /\ bk_before' = bk_files
    /\ bk_calls' = bk_calls + 1
    /\ UNCHANGED bk_files
    /\ UNCHANGED BkOthers

\* backup(path) with a path that has no file name: InvalidInput (line 135)
BackupInvalidPath ==
    /\ bk_pc = "idle"
    /\ bk_calls < MaxBackups
    /\ \E path \in BkPaths :
         /\ FileName(path) = None
         /\ bk_path' = path
    /\ bk_pc' = "done"
    /\ bk_result' = "Err(InvalidInput)"
    /\ bk_before' = bk_files
    /\ bk_calls' = bk_calls + 1
    /\ UNCHANGED <<bk_files, n_retries>>
    /\ UNCHANGED BkOthers

\* if backup_path.exists() { n_retries += 1; continue } (lines 147-150)
BackupRetry ==
    /\ bk_pc = "loop"
    /\ BackupPath(bk_path, n_retries) \in DOMAIN bk_files
    /\ n_retries < MaxRetries
    /\ n_retries' = n_retries + 1
    /\ UNCHANGED <<bk_files, bk_path, bk_pc, bk_result, bk_before, bk_calls>>
    /\ UNCHANGED BkOthers

\* fs::copy(path, &backup_path)?; break Ok(()) (lines 151-152)
BackupCopy ==
    /\ bk_pc = "loop"
    /\ BackupPath(bk_path, n_retries) \notin DOMAIN bk_files
    /\ bk_path \in DOMAIN bk_files
    /\ bk_files' = [name \in DOMAIN bk_files \cup {BackupPath(bk_path, n_retries)} |->
                       IF name = BackupPath(bk_path, n_retries)
                       THEN bk_files[bk_path] ELSE bk_files[name]]
    /\ bk_pc' = "done"
    /\ bk_result' = "Ok"
    /\ UNCHANGED <<bk_path, n_retries, bk_before, bk_calls>>
    /\ UNCHANGED BkOthers

\* fs::copy fails, the source does not exist: the error is returned (line 151)
BackupCopyErr ==
    /\ bk_pc = "loop"
    /\ BackupPath(bk_path, n_retries) \notin DOMAIN bk_files
    /\ bk_path \notin DOMAIN bk_files
    /\ bk_pc' = "done"
    /\ bk_result' = "Err(NotFound)"
    /\ UNCHANGED <<bk_files, bk_path, n_retries, bk_before, bk_calls>>
    /\ UNCHANGED BkOthers

\* the caller has the result and may call again
BackupReturn ==
    /\ bk_pc = "done"
    /\ bk_pc' = "idle"
    /\ UNCHANGED <<bk_files, bk_path, n_retries, bk_result, bk_before, bk_calls>>
    /\ UNCHANGED BkOthers

BackupNext ==
    \/ BackupCall
    \/ BackupInvalidPath
    \/ BackupRetry
    \/ BackupCopy
    \/ BackupCopyErr
    \/ BackupReturn

(***************************************************************************)
(*                               eq_files                                  *)
(*                                                                         *)
(* fs::metadata is stat(2): it walks the path a component at a time.  The  *)
(* file system is the root directory (node 0, also the working            *)
(* directory), a subdirectory s (node 1) that may be unsearchable, and two *)
(* regular files (nodes 2 and 3) linked under the names x and y of the     *)
(* root and x of s; one file under two names is a hard link.  File 3      *)
(* differs from file 2 in its inode number, or has the inode number of     *)
(* file 2 on another device.                                               *)
(***************************************************************************)
EqDirs == {0, 1}

EqFiles == {2, 3}

EqNames == {"s", "x", "y"}

NoNode == -1

EqFileSystems ==
    {[entries |-> [d \in EqDirs |-> [n \in EqNames |->
                      IF d = 0 THEN (IF n = "s" THEN s ELSE IF n = "x" THEN x ELSE y)
                      ELSE IF n = "x" THEN sx ELSE NoNode]],
      searchable |-> srch,
      dev |-> [n \in EqDirs \cup EqFiles |-> IF n = 3 /\ otherdev THEN 2 ELSE 1],
      ino |-> [n \in EqDirs \cup EqFiles |-> IF n = 3 /\ otherdev THEN 10 + 2 ELSE 10 + n]] :
        s \in {NoNode, 1}, x \in EqFiles \cup {NoNode}, y \in EqFiles \cup {NoNode},
        sx \in EqFiles \cup {NoNode}, srch \in BOOLEAN, otherdev \in BOOLEAN}

EqPaths ==
    {<<"x">>, <<".", "x">>, <<"s", "..", "x">>, <<"y">>, <<"s", "x">>,
     <<"x", "y">>, <<"z">>}

\* One component of a path, from the directory dir.
EqStep(fs, dir, name) ==
    IF name = "." THEN dir
    ELSE IF name = ".." THEN 0
    ELSE IF name \in EqNames THEN fs.entries[dir][name]
    ELSE NoNode

\* stat(2) of the path `path` taken from the node cur: the node, or the
\* error: ENOTDIR through a regular file, EACCES through an unsearchable
\* directory, ENOENT at a name that is not there.
RECURSIVE Stat(_, _, _)
Stat(fs, cur, path) ==
    IF path = <<>> THEN [err |-> "", node |-> cur]
    ELSE IF cur \notin EqDirs THEN [err |-> "NotADirectory", node |-> NoNode]
    ELSE IF cur = 1 /\ ~fs.searchable THEN [err |-> "PermissionDenied", node |-> NoNode]
    ELSE IF EqStep(fs, cur, Head(path)) = NoNode THEN [err |-> "NotFound", node |-> NoNode]
    ELSE Stat(fs, EqStep(fs, cur, Head(path)), Tail(path))

\* fs::metadata(path) (line 124)
Metadata(fs, path) ==
    LET st == Stat(fs, 0, path)
    IN  IF st.err = "" THEN [err |-> "", dev |-> fs.dev[st.node], ino |-> fs.ino[st.node]]
        ELSE [err |-> st.err, dev |-> 0, ino |-> 0]

\* metadata_if_exists (lines 123-131)
MetadataIfExists(fs, path) ==
    LET md == Metadata(fs, path)
    IN  IF md.err = "" THEN [tag |-> "Some", err |-> "", dev |-> md.dev, ino |-> md.ino]
        ELSE IF md.err = "NotFound" THEN [tag |-> "None", err |-> "", dev |-> 0, ino |-> 0]
        ELSE [tag |-> "Err", err |-> md.err, dev |-> 0, ino |-> 0]

EqInit ==
    /\ eq_fs \in EqFileSystems
    /\ eq_a = <<>>
    /\ eq_b = <<>>
    /\ a_metadata = None
    /\ b_metadata = None
    /\ eq_pc = "idle"
    /\ eq_result = ""
    /\ eq_before = None

EqOthers == <<walkVars, cfgVars, bkVars, aeVars, rnVars>>

\* eq_files(a, b) (lines 111-113)
EqCall ==
    /\ eq_pc = "idle"
    /\ eq_a' \in EqPaths
    /\ eq_b' \in EqPaths
    /\ eq_pc' = "metadata_a"
    /\ eq_before' = eq_fs
    /\ UNCHANGED <<eq_fs, a_metadata, b_metadata, eq_result>>
    /\ UNCHANGED EqOthers

\* let a_metadata = metadata_if_exists(a)?; with an Ok (line 114)
EqMetadataA ==
    /\ eq_pc = "metadata_a"
    /\ MetadataIfExists(eq_fs, eq_a).tag # "Err"
    /\ a_metadata' = MetadataIfExists(eq_fs, eq_a)
    /\ eq_pc' = "metadata_b"
    /\ UNCHANGED <<eq_fs, eq_a, eq_b, b_metadata, eq_result, eq_before>>
    /\ UNCHANGED EqOthers

\* metadata_if_exists(a)? with an Err: returned (line 114)
EqMetadataAErr ==
    /\ eq_pc = "metadata_a"
    /\ MetadataIfExists(eq_fs, eq_a).tag = "Err"
    /\ eq_result' = "Err(" \o MetadataIfExists(eq_fs, eq_a).err \o ")"
    /\ eq_pc' = "done"
    /\ UNCHANGED <<eq_fs, eq_a, eq_b, a_metadata, b_metadata, eq_before>>
    /\ UNCHANGED EqOthers

\* let b_metadata = metadata_if_exists(b)?; with an Ok (line 115)
EqMetadataB ==
    /\ eq_pc = "metadata_b"
    /\ MetadataIfExists(eq_fs, eq_b).tag # "Err"
    /\ b_metadata' = MetadataIfExists(eq_fs, eq_b)
    /\ eq_pc' = "match"
    /\ UNCHANGED <<eq_fs, eq_a, eq_b, a_metadata, eq_result, eq_before>>
    /\ UNCHANGED EqOthers

\* metadata_if_exists(b)? with an Err: returned (line 115)
EqMetadataBErr ==
    /\ eq_pc = "metadata_b"
    /\ MetadataIfExists(eq_fs, eq_b).tag = "Err"
    /\ eq_result' = "Err(" \o MetadataIfExists(eq_fs, eq_b).err \o ")"
    /\ eq_pc' = "done"
    /\ UNCHANGED <<eq_fs, eq_a, eq_b, a_metadata, b_metadata, eq_before>>
    /\ UNCHANGED EqOthers

\* The match with the inode numbers alone compared.
EqMatchInoOnly ==
    /\ eq_pc = "match"
    /\ eq_result' =
          IF a_metadata.tag = "Some" /\ b_metadata.tag = "Some"
          THEN (IF a_metadata.ino = b_metadata.ino THEN "Ok(true)" ELSE "Ok(false)")
          ELSE IF a_metadata.tag = "None" /\ b_metadata.tag = "None"
          THEN "Err(NotFound)"
          ELSE "Ok(false)"
    /\ eq_pc' = "done"
    /\ UNCHANGED <<eq_fs, eq_a, eq_b, a_metadata, b_metadata, eq_before>>
    /\ UNCHANGED EqOthers

\* match (a_metadata, b_metadata) (lines 116-120)
EqMatch ==
    /\ eq_pc = "match"
    /\ eq_result' =
          IF a_metadata.tag = "Some" /\ b_metadata.tag = "Some"
          THEN (IF a_metadata.dev = b_metadata.dev /\ a_metadata.ino = b_metadata.ino
                THEN "Ok(true)" ELSE "Ok(false)")
          ELSE IF a_metadata.tag = "None" /\ b_metadata.tag = "None"
          THEN "Err(NotFound)"
          ELSE "Ok(false)"
    /\ eq_pc' = "done"
    /\ UNCHANGED <<eq_fs, eq_a, eq_b, a_metadata, b_metadata, eq_before>>
    /\ UNCHANGED EqOthers

EqNext ==
    \/ EqCall
    \/ EqMetadataA
    \/ EqMetadataAErr
    \/ EqMetadataB
    \/ EqMetadataBErr
    \/ EqMatch

(***************************************************************************)
(*                              rename_file                                *)
(*                                                                         *)
(* Two paths, p and q, of regular files, each in a directory on a device.  *)
(* A path that exists names an inode and its data; p and q on one device   *)
(* may be hard links of one inode.  fs::rename is rename(2): EXDEV when    *)
(* the two directories are on different devices (decided before either     *)
(* name is looked up), ENOENT when from_path does not exist, EACCES when   *)
(* the directory may not be written; when both paths name one file it does *)
(* nothing and succeeds.  fs::copy and fs::remove_file fail when they are  *)
(* denied, and fs::copy when its source does not exist.                    *)
(***************************************************************************)
RnPaths == {"p", "q"}

RnData == {"x", "y"}

RnDevices == {1, 2}

\* The inode a copy creates.
NewIno == 3

RnEnvs ==
    [dev : [RnPaths -> RnDevices],
     rename_denied : BOOLEAN, copy_denied : BOOLEAN, remove_denied : BOOLEAN]

\* The files there may be as rename_file is called, in the environment env.
RnFilesIn(env) ==
    {f \in UNION {[S -> [ino : {1, 2}, data : RnData]] : S \in SUBSET RnPaths} :
        /\ "p" \in DOMAIN f => f["p"].ino = 1
        /\ ("q" \in DOMAIN f /\ f["q"].ino = 1) =>
              /\ "p" \in DOMAIN f
              /\ f["q"] = f["p"]
              /\ env.dev["p"] = env.dev["q"]}

\* The files without the path `path`.
Without(files, path) == [n \in DOMAIN files \ {path} |-> files[n]]

\* The files with `path` naming `file`.
With(files, path, file) ==
    [n \in DOMAIN files \cup {path} |-> IF n = path THEN file ELSE files[n]]

\* The error of fs::rename(from, to), "" when it succeeds (line 96).
RenameErr(files, env, from, to) ==
    IF env.dev[from] # env.dev[to] THEN "EXDEV"
    ELSE IF from \notin DOMAIN files THEN "ENOENT"
    ELSE IF env.rename_denied THEN "EACCES"
    ELSE ""

\* The files after a fs::rename(from, to) that succeeds (line 96).
Renamed(files, from, to) ==
    IF from = to \/ (to \in DOMAIN files /\ files[to].ino = files[from].ino)
    THEN files
    ELSE With(Without(files, from), to, files[from])

\* The error of fs::copy(from, to), "" when it succeeds (line 101).
CopyErr(files, env, from) ==
    IF from \notin DOMAIN files THEN "ENOENT"
    ELSE IF env.copy_denied THEN "EACCES"
    ELSE ""

\* The files after a fs::copy(from, to) that succeeds (line 101): an
\* existing to_path is overwritten in place.
Copied(files, from, to) ==
    With(files, to, [ino |-> IF to \in DOMAIN files THEN files[to].ino ELSE NewIno,
                     data |-> files[from].data])

RnInit ==
    /\ rn_env \in RnEnvs
    /\ rn_files \in RnFilesIn(rn_env)
    /\ from_path = ""
    /\ to_path = ""
    /\ rn_err = ""
    /\ rn_pc = "idle"
    /\ rn_result = ""
    /\ rn_ops = <<>>
    /\ rn_before = <<>>

RnOthers == <<walkVars, cfgVars, bkVars, aeVars, eqVars>>

\* rename_file(from_path, to_path) (lines 93-95)
RnCall ==
    /\ rn_pc = "idle"
    /\ from_path' \in RnPaths
    /\ to_path' \in RnPaths
    /\ rn_pc' = "rename"
    /\ rn_before' = rn_files
    /\ UNCHANGED <<rn_files, rn_env, rn_err, rn_result, rn_ops>>
    /\ UNCHANGED RnOthers

\* fs::rename succeeds: Ok(_) => Ok(()) (lines 96-97)
RnRename ==
    /\ rn_pc = "rename"
    /\ RenameErr(rn_files, rn_env, from_path, to_path) = ""
    /\ rn_files' = Renamed(rn_files, from_path, to_path)
    /\ rn_ops' = Append(rn_ops, "rename")
    /\ rn_result' = "Ok"
    /\ rn_pc' = "done"
    /\ UNCHANGED <<rn_env, from_path, to_path, rn_err, rn_before>>
    /\ UNCHANGED RnOthers

\* A fallback taken on any error of fs::rename.
RnRenameAnyErrFallsBack ==
    /\ rn_pc = "rename"
    /\ RenameErr(rn_files, rn_env, from_path, to_path) # ""
    /\ rn_err' = RenameErr(rn_files, rn_env, from_path, to_path)
    /\ rn_ops' = Append(rn_ops, "rename")
    /\ rn_pc' = "copy"
    /\ UNCHANGED <<rn_files, rn_env, from_path, to_path, rn_result, rn_before>>
    /\ UNCHANGED RnOthers

\* fs::rename fails with Some(libc::EXDEV) (lines 98-100)
RnRenameExdev ==
    /\ rn_pc = "rename"
    /\ RenameErr(rn_files, rn_env, from_path, to_path) = "EXDEV"
    /\ rn_err' = RenameErr(rn_files, rn_env, from_path, to_path)
    /\ rn_ops' = Append(rn_ops, "rename")
    /\ rn_pc' = "copy"
    /\ UNCHANGED <<rn_files, rn_env, from_path, to_path, rn_result, rn_before>>
    /\ UNCHANGED RnOthers

\* fs::rename fails with another error: _ => Err(e) (lines 98-99, 105)
RnRenameErr ==
    /\ rn_pc = "rename"
    /\ RenameErr(rn_files, rn_env, from_path, to_path) \notin {"", "EXDEV"}
    /\ rn_err' = RenameErr(rn_files, rn_env, from_path, to_path)
    /\ rn_ops' = Append(rn_ops, "rename")
    /\ rn_result' = "Err(" \o RenameErr(rn_files, rn_env, from_path, to_path) \o ")"
    /\ rn_pc' = "done"
    /\ UNCHANGED <<rn_files, rn_env, from_path, to_path, rn_before>>
    /\ UNCHANGED RnOthers

\* fs::copy(from_path, to_path)? succeeds (line 101)
RnCopy ==
    /\ rn_pc = "copy"
    /\ CopyErr(rn_files, rn_env, from_path) = ""
    /\ rn_files' = Copied(rn_files, from_path, to_path)
    /\ rn_ops' = Append(rn_ops, "copy")
    /\ rn_pc' = "remove"
    /\ UNCHANGED <<rn_env, from_path, to_path, rn_err, rn_result, rn_before>>
    /\ UNCHANGED RnOthers

\* fs::copy(from_path, to_path)? fails: its error is returned (line 101)
RnCopyErr ==
    /\ rn_pc = "copy"
    /\ CopyErr(rn_files, rn_env, from_path) # ""
    /\ rn_ops' = Append(rn_ops, "copy")
    /\ rn_result' = "Err(" \o CopyErr(rn_files, rn_env, from_path) \o ")"
    /\ rn_pc' = "done"
    /\ UNCHANGED <<rn_files, rn_env, from_path, to_path, rn_err, rn_before>>
    /\ UNCHANGED RnOthers

\* fs::remove_file(from_path)? succeeds; Ok(()) (lines 102-103)
RnRemove ==
    /\ rn_pc = "remove"
    /\ ~rn_env.remove_denied
    /\ rn_files' = Without(rn_files, from_path)
    /\ rn_ops' = Append(rn_ops, "remove")
    /\ rn_result' = "Ok"
    /\ rn_pc' = "done"
    /\ UNCHANGED <<rn_env, from_path, to_path, rn_err, rn_before>>
    /\ UNCHANGED RnOthers

\* fs::remove_file(from_path)? fails: its error is returned (line 102)
RnRemoveErr ==
    /\ rn_pc = "remove"
    /\ rn_env.remove_denied
    /\ rn_ops' = Append(rn_ops, "remove")
    /\ rn_result' = "Err(EACCES)"
    /\ rn_pc' = "done"
    /\ UNCHANGED <<rn_files, rn_env, from_path, to_path, rn_err, rn_before>>
    /\ UNCHANGED RnOthers

RnNext ==
    \/ RnCall
    \/ RnRename
    \/ RnRenameExdev
    \/ RnRenameErr
    \/ RnCopy
    \/ RnCopyErr
    \/ RnRemove
    \/ RnRemoveErr

(***************************************************************************)
(*                               almost_eq                                 *)
(*                                                                         *)
(* An f64 is a finite value, held as the exact fraction n/d with d > 0, or  *)
(* an infinity, or NaN.  The arithmetic is IEEE 754's on these: exact on    *)
(* the finite values (the values drawn are far from where rounding          *)
(* decides the comparison), and with the standard's results for a zero     *)
(* divisor, the infinities and NaN.  The sign of zero is not kept: x / 0   *)
(* with x # 0 is an infinity either way, never a finite value.             *)
(***************************************************************************)
Fin(n, d) == [k |-> "fin", n |-> n, d |-> d]

Inf(s) == [k |-> "inf", n |-> s, d |-> 1]

NaN == [k |-> "nan", n |-> 0, d |-> 1]

Sign(i) == IF i < 0 THEN -1 ELSE 1

Abs(i) == IF i < 0 THEN -i ELSE i

\* x < y on values that are not NaN
FLess(x, y) ==
    IF x.k = "inf" THEN x.n < 0 /\ ~(y.k = "inf" /\ y.n < 0)
    ELSE IF y.k = "inf" THEN y.n > 0
    ELSE x.n * y.d < y.n * x.d

\* f64::min (line 87): the other operand when one is NaN
FMin(x, y) ==
    IF x.k = "nan" THEN y
    ELSE IF y.k = "nan" THEN x
    ELSE IF FLess(y, x) THEN y ELSE x

\* f64::max (line 88)
FMax(x, y) ==
    IF x.k = "nan" THEN y
    ELSE IF y.k = "nan" THEN x
    ELSE IF FLess(x, y) THEN y ELSE x

\* max - min (line 89)
FSub(x, y) ==
    IF x.k = "nan" \/ y.k = "nan" THEN NaN
    ELSE IF x.k = "inf" /\ y.k = "inf" THEN (IF x.n = y.n THEN NaN ELSE x)
    ELSE IF x.k = "inf" THEN x
    ELSE IF y.k = "inf" THEN Inf(-y.n)
    ELSE Fin(x.n * y.d - y.n * x.d, x.d * y.d)

\* ... / max (line 89): 0 / 0 and inf / inf are NaN, x / 0 is an infinity
FDiv(x, y) ==
    IF x.k = "nan" \/ y.k = "nan" THEN NaN
    ELSE IF x.k = "inf" /\ y.k = "inf" THEN NaN
    ELSE IF x.k = "inf" THEN Inf(x.n * Sign(y.n))
    ELSE IF y.k = "inf" THEN Fin(0, 1)
    ELSE IF y.n = 0 THEN (IF x.n = 0 THEN NaN ELSE Inf(Sign(x.n)))
    ELSE Fin(x.n * y.d * Sign(y.n), x.d * Abs(y.n))

\* ... <= relative_tolerance (line 89): false when either side is NaN
FLessEq(x, y) ==
    /\ x.k # "nan"
    /\ y.k # "nan"
    /\ ~FLess(y, x)

\* pub fn almost_eq (lines 86-90)
AlmostEq(a, b, tol) ==
    LET min == FMin(a, b)
        max == FMax(a, b)
    IN  FLessEq(FDiv(FSub(max, min), max), tol)

\* The values of the tests (lines 168-173), zero, negatives, and the
\* values that are not finite.
AeValues ==
    {Fin(0, 1), Fin(1, 1), Fin(11, 10), Fin(2, 1), Fin(-1, 1), Fin(-11, 10),
     Inf(1), Inf(-1), NaN}

AeTolerances == {Fin(0, 1), Fin(1, 100), Fin(1, 10), Fin(1, 1)}

AeInit ==
    /\ ae_a \in AeValues
    /\ ae_b \in AeValues
    /\ relative_tolerance \in AeTolerances
    /\ ae_pc = "call"
    /\ ae_result = FALSE

AeOthers == <<walkVars, cfgVars, bkVars, eqVars, rnVars>>

AlmostEqCall ==
    /\ ae_pc = "call"
    /\ ae_result' = AlmostEq(ae_a, ae_b, relative_tolerance)
    /\ ae_pc' = "done"
    /\ UNCHANGED <<ae_a, ae_b, relative_tolerance>>
    /\ UNCHANGED AeOthers

AlmostEqNext == AlmostEqCall

(***************************************************************************)
(*                          The specifications                             *)
(***************************************************************************)
WalkSpecInit == WalkInit /\ CfgIdle /\ BkIdle /\ AeIdle /\ EqIdle /\ RnIdle

WalkSpec == WalkSpecInit /\ [][WalkNext]_vars

ConfigSeqInit == CfgInit /\ WalkIdle /\ BkIdle /\ AeIdle /\ EqIdle /\ RnIdle

ConfigSeqSpec == ConfigSeqInit /\ [][CfgSeqNext]_vars

ConfigRaceInit == CfgRaceInit /\ WalkIdle /\ BkIdle /\ AeIdle /\ EqIdle /\ RnIdle

ConfigRaceSpec == ConfigRaceInit /\ [][CfgRaceNext]_vars

BackupInit == BkInit /\ WalkIdle /\ CfgIdle /\ AeIdle /\ EqIdle /\ RnIdle

BackupSpec == BackupInit /\ [][BackupNext]_vars

AlmostEqInit == AeInit /\ WalkIdle /\ CfgIdle /\ BkIdle /\ EqIdle /\ RnIdle

AlmostEqSpec == AlmostEqInit /\ [][AlmostEqNext]_vars

EqFilesInit == EqInit /\ WalkIdle /\ CfgIdle /\ BkIdle /\ AeIdle /\ RnIdle

EqFilesSpec == EqFilesInit /\ [][EqNext]_vars

RenameInit == RnInit /\ WalkIdle /\ CfgIdle /\ BkIdle /\ AeIdle /\ EqIdle

RenameSpec == RenameInit /\ [][RnNext]_vars

(***************************************************************************)
(* walk_dir: what the claims speak of.                                     *)
(***************************************************************************)
\* The paths the graph holds below path p (p included), by the entries of the
\* directories alone, whether or not the walker can read them.
RECURSIVE PathsFrom(_, _)
PathsFrom(fs, p) ==
    {p} \cup
    IF fs.kind[Last(p)] = "dir" /\ Len(p) <= MaxPathLen
    THEN UNION {PathsFrom(fs, Append(p, n)) : n \in Entries(fs, Last(p))}
    ELSE {}

\* The entries of the graph (every one is an entry of a directory), and those
\* the walker follows: the entries of a directory it can list, read without error.
AllEdges(fs) == TreeEdges(fs.parent) \cup fs.links

WalkEdges(fs) == {e \in AllEdges(fs) : e[1] \notin fs.unreadable /\ e \notin fs.bad}

\* The nodes reached from the nodes S by one or more edges of E.
RECURSIVE ReachedFrom(_, _, _)
ReachedFrom(E, S, seen) ==
    LET next == {e[2] : e \in {e \in E : e[1] \in S}} \ seen
    IN  IF next = {} THEN seen ELSE ReachedFrom(E, next, seen \cup next)

\* The links among the edges E that close a cycle of E.  The tree alone has no
\* cycle, so every cycle goes through a link.
CycleLinks(fs, E) ==
    {l \in fs.links \cap E : l[1] \in {l[2]} \cup ReachedFrom(E, {l[2]}, {})}

\* No directory cycle anywhere in the graph.
NoCycle(fs) == CycleLinks(fs, AllEdges(fs)) = {}

\* A directory cycle the walker gets to from the root.
WalkedCycle(fs) ==
    LET E == WalkEdges(fs)
    IN  \E l \in CycleLinks(fs, E) : l[1] \in {0} \cup ReachedFrom(E, {0}, {})

\* Every directory on the way to path p is listed, and every entry on it read.
Walked(fs, p) ==
    \A i \in 1..(Len(p) - 1) : <<p[i], p[i + 1]>> \in WalkEdges(fs)

\* A directory tree without cycles in which everything can be listed.
ListableTree(fs) ==
    /\ fs.kind[0] = "dir"
    /\ NoCycle(fs)
    /\ fs.unreadable = {} /\ fs.bad = {}

\* C1: on a directory tree without directory cycles in which every directory
\* can be listed, walk_dir returns exactly one result f(p) for every regular
\* file p below the root, none for a directory (the root included), and
\* nothing else.
C1_EachFileOnce ==
    (walk_pc = "done" /\ ListableTree(walk_fs)) =>
        LET all == PathsFrom(walk_fs, <<0>>)
        IN  /\ \A p \in all :
                 Count(results, F(p)) = IF walk_fs.kind[Last(p)] = "file" THEN 1 ELSE 0
            /\ \A i \in 1..Len(results) : \E p \in all : results[i] = F(p)

\* A finished walk of a listable tree with a file at the root and a file in a
\* subdirectory, both visited.
C1_Witness ==
    /\ walk_pc = "done" /\ ListableTree(walk_fs)
    /\ \E i, j \in 1..Len(results) :
          Len(results[i][2]) = 2 /\ Len(results[j][2]) >= 3

\* C2: walk_dir always returns a result vector; a directory that cannot be
\* listed (the root included) loses only its own subtree: every regular file
\* all of whose directories are listed and whose entries are read has exactly
\* one result, a file below a directory that cannot be listed has none, and a
\* root that cannot be listed gives the empty vector.
C2_OnlySubtreeSkipped ==
    walk_pc = "done" =>
        /\ \A p \in PathsFrom(walk_fs, <<0>>) :
              Count(results, F(p)) =
                 IF walk_fs.kind[Last(p)] = "file" /\ Len(p) >= 2 /\ Walked(walk_fs, p)
                 THEN 1 ELSE 0
        /\ ~ReadDirOk(walk_fs, <<0>>) => results = <<>>
        /\ dir_stack = <<>>

\* A finished walk past a subdirectory that cannot be listed and holds a file,
\* with a sibling file visited.
C2_Witness ==
    /\ walk_pc = "done"
    /\ \E d \in walk_fs.unreadable :
          /\ d # 0
          /\ \E n \in Entries(walk_fs, d) : walk_fs.kind[n] = "file"
    /\ results # <<>>

WalkDone == walk_pc = "done"

RECURSIVE Sum(_)
Sum(s) == IF s = <<>> THEN 0 ELSE Head(s) + Sum(Tail(s))

\* The steps the walker takes for directory node d once it is popped, and for
\* the entry <<d, n>> once the iterator hands it out; defined where the graph
\* has no cycle.
RECURSIVE DirSteps(_, _)
DirSteps(fs, d) ==
    LET EntrySteps(n) ==
            IF <<d, n>> \notin fs.bad /\ fs.kind[n] = "dir"
            THEN 1 + DirSteps(fs, n) ELSE 1
        ents == Entries(fs, d)
    IN  IF fs.kind[d] = "dir" /\ d \notin fs.unreadable
        THEN 2 + Sum([n \in 1..(MaxNode + 1) |->
                        IF n - 1 \in ents THEN EntrySteps(n - 1) ELSE 0])
        ELSE 1

\* The steps left to the walker before it has returned.
StepsLeft ==
    LET StackSteps(i) == DirSteps(walk_fs, Last(dir_stack[i]))
        RestSteps(i) ==
            IF <<Last(iter.dir), iter.rest[i]>> \notin walk_fs.bad
               /\ walk_fs.kind[iter.rest[i]] = "dir"
            THEN 1 + DirSteps(walk_fs, iter.rest[i]) ELSE 1
    IN  Sum([i \in 1..Len(dir_stack) |-> StackSteps(i)])
        + (IF walk_pc = "for"
           THEN 1 + Sum([i \in 1..Len(iter.rest) |-> RestSteps(i)]) ELSE 0)
        + (IF walk_pc = "done" THEN 0 ELSE 1)

\* The nodes from which the walker gets onto a directory cycle.
LeadsToCycle(fs) ==
    LET E == WalkEdges(fs)
        sources == {l[1] : l \in CycleLinks(fs, E)}
    IN  IF sources = {} THEN {}
        ELSE {n \in Nodes : ({n} \cup ReachedFrom(E, {n}, {})) \cap sources # {}}

\* The directories the walker still has to list: those on the work list and
\* those the current iterator will push.
Pending ==
    {Last(dir_stack[i]) : i \in 1..Len(dir_stack)}
    \cup (IF walk_pc = "for"
          THEN {iter.rest[i] : i \in {j \in 1..Len(iter.rest) :
                                        /\ <<Last(iter.dir), iter.rest[j]>> \notin walk_fs.bad
                                        /\ walk_fs.kind[iter.rest[j]] = "dir"}}
          ELSE {})

DefaultToml == <<"a", "0", "b", "1">>

\* C3: a call of config() that begins without the configuration directory,
\* with nobody else at the directory, ends with the directory, with
\* config.toml holding exactly the serialization of Config::default(), and
\* returns Config::default(); it does not panic.
C3_FirstLoadBootstraps ==
    \A p \in Callers :
        (cfg_pc[p] \in {"done", "panicked"} /\ ~cfg_at_call[p].dir) =>
            /\ cfg_pc[p] = "done"
            /\ cfg_dir
            /\ cfg_file = File(DefaultToml)
            /\ cfg_ret[p] = [a |-> "0", b |-> "1"]

C3_Witness ==
    cfg_pc[1] = "done" /\ ~cfg_at_call[1].dir /\ cfg_file.exists

\* C4: a call of config() that finds config.toml leaves it as it is, at every
\* step of the call, and the loads since the last hand edit all returned what
\* the first of them returned.
C4_ExistingFileUntouched ==
    /\ \A p \in Callers :
         (cfg_pc[p] # "idle" /\ cfg_at_call[p].file.exists) =>
             cfg_file = cfg_at_call[p].file
    /\ \A i \in 1..Len(cfg_loads) : cfg_loads[i] = cfg_loads[1]

\* Two loads of a hand-edited config.toml that holds other values than the defaults.
C4_Witness ==
    /\ Len(cfg_loads) >= 2
    /\ cfg_pc[1] = "done"
    /\ cfg_at_call[1].file.exists
    /\ cfg_at_call[1].file.text # DefaultToml
    /\ cfg_ret[1] # Default

\* A partly written config.toml: a piece of the defaults, with gaps or cut short.
Partial(text) ==
    /\ text # DefaultToml
    /\ Len(text) <= Len(DefaultToml)
    /\ \A i \in 1..Len(text) : text[i] \in {DefaultToml[i], "NUL"}

\* C9: there is no lock between the check and the write.  Whoever saw the file
\* absent writes, whatever the others do; the last writer wins: once nobody is
\* writing, config.toml is absent or holds exactly the defaults, and a load
\* that returns returned the defaults; a caller panics only on a partly
\* written file, which it read while another caller was still writing.
C9_UnguardedCheckThenWrite ==
    /\ (\A p \in Callers : cfg_pc[p] # "write_all") => cfg_file \in {Absent, File(DefaultToml)}
    /\ \A p \in Callers :
         /\ cfg_pc[p] \in {"write", "write_all"} => cfg_absent[p]
         /\ cfg_pc[p] = "done" => cfg_ret[p] = [a |-> "0", b |-> "1"]
         /\ cfg_pc[p] = "panicked" => Partial(cfg_text[p])

\* Both interleavings in one run: both callers have written the defaults,
\* the second because it saw the file absent before the first created it, and
\* a caller that then found the file present has read it while the second
\* writer had created it anew and not yet written it completely.
C9_Witness ==
    \E p, q \in Callers :
        /\ p # q
        /\ {p, q} \subseteq cfg_writers
        /\ cfg_absent[q] /\ cfg_pc[q] = "write_all"
        /\ ~cfg_absent[p] /\ cfg_pc[p] = "panicked" /\ Partial(cfg_text[p])

(***************************************************************************)
(* backup: what the claims speak of.                                       *)
(***************************************************************************)
\* The n-th name of the sequence P.bak, P.bak.1, P.bak.2, ...
BakName(P, n) == IF n = 0 THEN P \o ".bak" ELSE P \o ".bak." \o ToString(n)

\* C5: backup(P) of an existing file P returns Ok and creates exactly one
\* file: the first of P.bak, P.bak.1, P.bak.2, ... that did not exist as the
\* call began, with the content of P; P and every file that existed keep
\* their content.
C5_FirstFreeBackupName ==
    (bk_pc = "done" /\ bk_path \in DOMAIN bk_before) =>
        /\ bk_result = "Ok"
        /\ \E n \in 0..MaxRetries :
             /\ \A m \in 0..(n - 1) : BakName(bk_path, m) \in DOMAIN bk_before
             /\ BakName(bk_path, n) \notin DOMAIN bk_before
             /\ DOMAIN bk_files = DOMAIN bk_before \cup {BakName(bk_path, n)}
             /\ bk_files[BakName(bk_path, n)] = bk_before[bk_path]
        /\ \A name \in DOMAIN bk_before : bk_files[name] = bk_before[name]

\* f.bak existed, with another content than f, and f.bak.1 did not: backup("f")
\* has made f.bak.1.
C5_Witness ==
    /\ bk_pc = "done" /\ bk_path = "f" /\ bk_result = "Ok"
    /\ "f.bak" \in DOMAIN bk_before /\ "f.bak.1" \notin DOMAIN bk_before
    /\ bk_before["f.bak"] # bk_before["f"]
    /\ "f.bak.1" \in DOMAIN bk_files

(***************************************************************************)
(* eq_files: what the claims speak of.                                     *)
(***************************************************************************)
\* The file a path names, whoever may or may not search the directories on
\* the way: a node, or NoNode when the path names nothing.
RECURSIVE Target(_, _, _)
Target(fs, cur, path) ==
    IF path = <<>> THEN cur
    ELSE IF cur \notin EqDirs THEN NoNode
    ELSE IF EqStep(fs, cur, Head(path)) = NoNode THEN NoNode
    ELSE Target(fs, EqStep(fs, cur, Head(path)), Tail(path))

PathExists(fs, path) == Target(fs, 0, path) # NoNode

\* Both exist, and are one file on one device.
SameFile(fs, a, b) ==
    /\ PathExists(fs, a) /\ PathExists(fs, b)
    /\ fs.dev[Target(fs, 0, a)] = fs.dev[Target(fs, 0, b)]
    /\ fs.ino[Target(fs, 0, a)] = fs.ino[Target(fs, 0, b)]

\* The result the claim gives for a and b.
EqExpected(fs, a, b) ==
    IF PathExists(fs, a) /\ PathExists(fs, b)
    THEN (IF SameFile(fs, a, b) THEN "Ok(true)" ELSE "Ok(false)")
    ELSE IF PathExists(fs, a) \/ PathExists(fs, b) THEN "Ok(false)"
    ELSE "Err(NotFound)"

\* The error of the lookup of a path, "" when it succeeds.
LookupErr(fs, path) == Stat(fs, 0, path).err

\* C6, as stated: eq_files(a, b) is Ok(true) iff both paths exist and have
\* the same (device, inode); Ok(false) if both exist with another identity or
\* exactly one exists; a NotFound error if neither exists; and the file
\* system is as it was.
C6_AsStated ==
    eq_pc = "done" =>
        /\ eq_result = EqExpected(eq_before, eq_a, eq_b)
        /\ eq_fs = eq_before

\* C6, amended: the above holds when each of the two lookups succeeds or
\* fails with NotFound.  A lookup of a that fails otherwise (through a
\* regular file, through an unsearchable directory) makes eq_files return
\* that error; else such a failure of the lookup of b does.  The file system
\* is as it was in every case.
C6_IdentityUnlessLookupFails ==
    eq_pc = "done" =>
        /\ eq_fs = eq_before
        /\ eq_result =
              IF LookupErr(eq_before, eq_a) \notin {"", "NotFound"}
              THEN "Err(" \o LookupErr(eq_before, eq_a) \o ")"
              ELSE IF LookupErr(eq_before, eq_b) \notin {"", "NotFound"}
              THEN "Err(" \o LookupErr(eq_before, eq_b) \o ")"
              ELSE EqExpected(eq_before, eq_a, eq_b)

\* Two different path strings of one file have compared equal.
C6_Witness ==
    /\ eq_pc = "done"
    /\ eq_a = <<"x">> /\ eq_b = <<"s", "..", "x">>
    /\ eq_result = "Ok(true)"

(***************************************************************************)
(* rename_file: what the claims speak of.                                  *)
(***************************************************************************)
RnCalled == rn_pc \notin {"idle", "rename"}

\* A plain rename is the first call made, and a copy and then a delete
\* follow it only when it failed with EXDEV.
RenameFirstFallbackOnExdev ==
    /\ RnCalled => (rn_ops # <<>> /\ rn_ops[1] = "rename")
    /\ \/ rn_ops \in {<<>>, <<"rename">>}
       \/ /\ rn_ops \in {<<"rename", "copy">>, <<"rename", "copy", "remove">>}
          /\ rn_err = "EXDEV"
          /\ rn_env.dev[from_path] # rn_env.dev[to_path]

\* Any other error of the rename is returned, nothing copied or deleted.
OtherErrorReturned ==
    (rn_pc = "done" /\ rn_err \notin {"", "EXDEV"}) =>
        /\ rn_result = "Err(" \o rn_err \o ")"
        /\ rn_ops = <<"rename">>
        /\ rn_files = rn_before

\* from_path is gone and to_path has the content from_path had.
Moved ==
    /\ from_path \notin DOMAIN rn_files
    /\ to_path \in DOMAIN rn_files
    /\ rn_files[to_path].data = rn_before[from_path].data

\* Between the copy and the delete both paths exist, and they still do when
\* the delete has failed.
BothExist ==
    /\ from_path \in DOMAIN rn_files
    /\ to_path \in DOMAIN rn_files
    /\ rn_files[to_path].data = rn_files[from_path].data

BothExistMidway ==
    /\ rn_pc = "remove" => BothExist
    /\ (rn_pc = "done" /\ rn_ops = <<"rename", "copy", "remove">> /\ rn_result # "Ok")
          => BothExist

\* from_path and to_path named one file as the call began: the same path, or
\* two hard links of one inode.
OneFile ==
    /\ from_path \in DOMAIN rn_before
    /\ to_path \in DOMAIN rn_before
    /\ rn_before[from_path].ino = rn_before[to_path].ino

\* C7, as stated: a plain rename first, the copy-then-delete fallback only on
\* EXDEV, any other rename error returned with nothing copied or deleted;
\* whenever the result is Ok, from no longer exists and to holds from's
\* original content; both exist between the copy and the delete.
C7_AsStated ==
    /\ RenameFirstFallbackOnExdev
    /\ OtherErrorReturned
    /\ (rn_pc = "done" /\ rn_result = "Ok") => Moved
    /\ BothExistMidway

\* C7, amended: as stated, but an Ok leaves from gone and to with from's
\* content only when from and to did not name one file as the call began;
\* when they did (the same path, or two hard links of one inode) the result
\* is Ok and nothing has changed, from still existing.
C7_MovedUnlessOneFile ==
    /\ RenameFirstFallbackOnExdev
    /\ OtherErrorReturned
    /\ (rn_pc = "done" /\ rn_result = "Ok" /\ ~OneFile) => Moved
    /\ (rn_pc = "done" /\ rn_result = "Ok" /\ OneFile) =>
          (rn_files = rn_before /\ from_path \in DOMAIN rn_files)
    /\ BothExistMidway

\* The rename failed with EXDEV, the copy was made and the delete failed:
\* rename_file has returned an error and both paths exist.
C7_Witness ==
    /\ rn_pc = "done"
    /\ rn_ops = <<"rename", "copy", "remove">>
    /\ rn_result = "Err(EACCES)"
    /\ from_path # to_path
    /\ BothExist

(***************************************************************************)
(* almost_eq: what the claims speak of.                                    *)
(***************************************************************************)
\* C8: almost_eq(x, x, 0.0) is true for any finite x, zero and the negative
\* values included; almost_eq(1.0, 1.1, 0.1) is true; almost_eq(1.0, 1.1,
\* 0.01) is false.
C8_EqualValuesAndTestCases ==
    ae_pc = "done" =>
        /\ (ae_a = ae_b /\ ae_a.k = "fin" /\ relative_tolerance = Fin(0, 1))
               => ae_result
        /\ (ae_a = Fin(1, 1) /\ ae_b = Fin(11, 10)
               /\ relative_tolerance = Fin(1, 10)) => ae_result
        /\ (ae_a = Fin(1, 1) /\ ae_b = Fin(11, 10)
               /\ relative_tolerance = Fin(1, 100)) => ~ae_result

\* C8, as the code has it: the three test cases are as stated, and
\* almost_eq(x, x, 0.0) is true for every finite x but 0.0, positive or
\* negative; for 0.0 the quotient is 0/0 = NaN, which no tolerance bounds.
C8_EqualValuesExceptZero ==
    ae_pc = "done" =>
        /\ (ae_a = ae_b /\ ae_a.k = "fin" /\ relative_tolerance = Fin(0, 1))
               => (ae_result <=> ae_a.n # 0)
        /\ (ae_a = Fin(1, 1) /\ ae_b = Fin(11, 10)
               /\ relative_tolerance = Fin(1, 10)) => ae_result
        /\ (ae_a = Fin(1, 1) /\ ae_b = Fin(11, 10)
               /\ relative_tolerance = Fin(1, 100)) => ~ae_result

\* almost_eq(0.0, 0.0, 0.0) has returned false.
C8_Witness ==
    /\ ae_pc = "done"
    /\ ae_a = Fin(0, 1) /\ ae_b = Fin(0, 1) /\ relative_tolerance = Fin(0, 1)
    /\ ~ae_result

====
